---- MODULE Spec2Model ----
(***************************************************************************)
(* Invertible Bloom Filters and the strata estimator of iron_rose.         *)
(*                                                                         *)
(* Elements are small unsigned integers with bitwise XOR.  The two hashes  *)
(* come from the fasthash crate, which is not part of the repository:      *)
(*   - the element hash of Cell (Murmur3, 128 bit) is modelled as a        *)
(*     one-hot code, ElmHash(e) = 2^e: the XOR of the hashes of a set of   *)
(*     elements identifies that set, as a 128-bit hash does for a handful  *)
(*     of elements;                                                        *)
(*   - the index hash of IBF (Metro, 64 bit) is an arbitrary function      *)
(*     hidx, chosen in the initial state, that get_ith_cell reduces        *)
(*     modulo the bucket count; collisions between positions and between   *)
(*     elements are all reachable;                                         *)
(*   - hash64(..).trailing_zeros() of the strata estimator is an arbitrary *)
(*     function htz chosen in the initial state.                           *)
(***************************************************************************)
EXTENDS Integers, Sequences, FiniteSets, TLC

VARIABLES
    hidx,    \* index hash: element -> position i -> raw 64-bit hash value
    left,    \* the local IBF
    right,   \* the remote IBF
    encL,    \* element -> number of encode calls on left
    encR,    \* element -> number of encode calls on right
    pc,      \* "build" | "sub_err" | "peel" | "done" | "panic"
    origin,  \* what decode consumes: "none" | "diff" | "left"
    dec,     \* the IBF that decode owns (self)
    dset,    \* decode's local `set`
    res,     \* what decode returned
    steps,   \* iterations of decode's loop that peeled a cell
    htz,     \* element -> trailing zeros of hash64(element)
    se1,     \* the local strata estimator: its ibfs
    se2,     \* the remote strata estimator: its ibfs
    sencL,   \* elements encoded into se1
    sencR,   \* elements encoded into se2
    spc,     \* "build" | "done" | "panic"
    est      \* what estimate_differences returned

vars == <<hidx, left, right, encL, encR, pc, origin, dec, dset, res, steps,
          htz, se1, se2, sencL, sencR, spc, est>>

ibfVars == <<left, right, encL, encR, pc, origin, dec, dset, res, steps>>
strataVars == <<htz, se1, se2, sencL, sencR, spc, est>>

---------------------------------------------------------------------------
(* Bounds *)

\* encode calls on the two IBFs of one behaviour, in total
MaxEnc == 4
\* encode calls of one element on one IBF
MaxDup == 1
\* encode calls on the two strata estimators of one behaviour, in total
MaxStrataEnc == 4

\* the elements that are encoded; the zero value (T::default()) is one of them
Elems == {0, 1, 2}
\* positions i of the loops `for i in 0..self.hash_count`
Pos == {0, 1, 2}

---------------------------------------------------------------------------
(* Element arithmetic *)

RECURSIVE Xor(_, _)
Xor(a, b) ==
    IF a = 0 THEN b
    ELSE IF b = 0 THEN a
    ELSE ((a + b) % 2) + 2 * Xor(a \div 2, b \div 2)

\* Murmur3HasherExt over the element, finish_ext(): one-hot, never 0
ElmHash(e) == 2 ^ e

---------------------------------------------------------------------------
(* Cell *)

CellDefault == [id_sum |-> 0, hash_sum |-> 0, count |-> 0]

\* id_sum assigned instead of XOR-ed
CellEncodeAssigns(c, element) ==
    [id_sum   |-> element,
     hash_sum |-> Xor(c.hash_sum, ElmHash(element)),
     count    |-> c.count + 1]

CellEncode(c, element) ==
    [id_sum   |-> Xor(c.id_sum, element),
     hash_sum |-> Xor(c.hash_sum, ElmHash(element)),
     count    |-> c.count + 1]

\* the hash of id_sum left out of the test
is_pure_count_only(c) == c.count = 1 \/ c.count = -1

is_pure(c) ==
    (c.count = 1 \/ c.count = -1) /\ c.hash_sum = ElmHash(c.id_sum)

\* the sums left out of the test
is_empty_count_only(c) == c.count = 0

is_empty(c) ==
    c.count = 0 /\ c.hash_sum = 0 /\ c.id_sum = 0

Left(e) == <<"Left", e>>
Right(e) == <<"Right", e>>

\* Ok only for count +1: a pure cell of count -1 is refused
CellDecodeLeftOnly(c) ==
    IF ~(is_pure(c) /\ c.count = 1)
    THEN [ok |-> FALSE, side |-> <<"Impure bucket", 0>>]
    ELSE [ok |-> TRUE, side |-> Left(c.id_sum)]

\* Result<Side<T>, String>
CellDecode(c) ==
    IF ~is_pure(c)
    THEN [ok |-> FALSE, side |-> <<"Impure bucket", 0>>]
    ELSE [ok |-> TRUE,
          side |-> IF c.count = 1 THEN Left(c.id_sum) ELSE Right(c.id_sum)]

\* the count added instead of subtracted
CellSubAssignAdds(c, rhs) ==
    [id_sum   |-> Xor(c.id_sum, rhs.id_sum),
     hash_sum |-> Xor(c.hash_sum, rhs.hash_sum),
     count    |-> c.count + rhs.count]

CellSubAssign(c, rhs) ==
    [id_sum   |-> Xor(c.id_sum, rhs.id_sum),
     hash_sum |-> Xor(c.hash_sum, rhs.hash_sum),
     count    |-> c.count - rhs.count]

\* the operands of the count swapped
CellSubReversed(l, r) ==
    [id_sum   |-> Xor(l.id_sum, r.id_sum),
     hash_sum |-> Xor(l.hash_sum, r.hash_sum),
     count    |-> r.count - l.count]

\* the count added, as in impl Add
CellSubAdds(l, r) ==
    [id_sum   |-> Xor(l.id_sum, r.id_sum),
     hash_sum |-> Xor(l.hash_sum, r.hash_sum),
     count    |-> l.count + r.count]

CellSub(l, r) ==
    [id_sum   |-> Xor(l.id_sum, r.id_sum),
     hash_sum |-> Xor(l.hash_sum, r.hash_sum),
     count    |-> l.count - r.count]

\* impl Sub for Cell, the operands by value
CellSubOwned(l, r) ==
    [id_sum   |-> Xor(l.id_sum, r.id_sum),
     hash_sum |-> Xor(l.hash_sum, r.hash_sum),
     count    |-> l.count - r.count]

\* impl Add for Cell
CellAdd(l, r) ==
    [id_sum   |-> Xor(l.id_sum, r.id_sum),
     hash_sum |-> Xor(l.hash_sum, r.hash_sum),
     count    |-> l.count + r.count]

---------------------------------------------------------------------------
(* IBF *)

\* IBF::new_with_hash_count
new_with_hash_count(size, hash_count) ==
    [cells      |-> [j \in 0..(size - 1) |-> CellDefault],
     hash_count |-> hash_count,
     size       |-> size]

\* IBF::new: the default hash_count
DefaultHashCount == 3
new(size) == new_with_hash_count(size, DefaultHashCount)

\* hasher.finish() of get_ith_cell: the Metro hash of (element, i)
IdxHash(element, i) ==
    IF element \in Elems /\ i \in Pos THEN hidx[element][i] ELSE 0

\* the position i left out of the hash: one cell for all k positions
get_ith_cell_first(ibf, i, element) == IdxHash(element, 0) % ibf.size

\* get_ith_cell: the index of the cell; `% (self.size as u64)` panics when
\* size is 0, which callers test with IndexPanics
get_ith_cell(ibf, i, element) == IdxHash(element, i) % ibf.size

IndexPanics(ibf) == ibf.hash_count > 0 /\ ibf.size = 0

\* IBF::encode, the loop from position i on
RECURSIVE EncodeFrom(_, _, _)
EncodeFrom(ibf, element, i) ==
    IF i >= ibf.hash_count THEN ibf
    ELSE LET j == get_ith_cell(ibf, i, element)
         IN EncodeFrom([ibf EXCEPT !.cells[j] = CellEncode(@, element)],
                       element, i + 1)

IbfEncode(ibf, element) == EncodeFrom(ibf, element, 0)

\* IBF::remove, the loop from position i on
RECURSIVE RemoveFrom(_, _, _, _)
RemoveFrom(ibf, cell, element, i) ==
    IF i >= ibf.hash_count THEN ibf
    ELSE LET j == get_ith_cell(ibf, i, element)
         IN RemoveFrom([ibf EXCEPT !.cells[j] = CellSubAssign(@, cell)],
                       cell, element, i + 1)

\* the loop started at position 1
IbfRemoveSkipsFirst(ibf, cell) ==
    RemoveFrom(ibf, cell, CellDecode(cell).side[2], 1)

\* IBF::remove; the caller has tested cell.decode().ok
IbfRemove(ibf, cell) == RemoveFrom(ibf, cell, CellDecode(cell).side[2], 0)

\* hash_count left out of the comparison
ShapeMismatchSizeOnly(l, r) == l.size # r.size

ShapeMismatch(l, r) == l.hash_count # r.hash_count \/ l.size # r.size

\* impl Sub for IBF: Result<IBF, String>
IbfSub(l, r) ==
    IF ShapeMismatch(l, r)
    THEN [ok |-> FALSE, ibf |-> new_with_hash_count(0, 0)]
    ELSE [ok |-> TRUE,
          ibf |-> [l EXCEPT !.cells =
                      [j \in DOMAIN l.cells |-> CellSub(l.cells[j], r.cells[j])]]]

\* the cells of the left operand, nothing subtracted
IbfSubRefKeepsLeft(l, r) ==
    IF ShapeMismatch(l, r)
    THEN [ok |-> FALSE, ibf |-> new_with_hash_count(0, 0)]
    ELSE [ok |-> TRUE, ibf |-> l]

\* impl Sub for &IBF
IbfSubRef(l, r) ==
    IF ShapeMismatch(l, r)
    THEN [ok |-> FALSE, ibf |-> new_with_hash_count(0, 0)]
    ELSE [ok |-> TRUE,
          ibf |-> [cells      |-> [j \in DOMAIN l.cells |->
                                      CellSub(l.cells[j], r.cells[j])],
                   hash_count |-> l.hash_count,
                   size       |-> l.size]]

\* self.cells.iter().find(|cell| cell.is_pure()): the indices of pure cells
PureCells(ibf) == {j \in DOMAIN ibf.cells : is_pure(ibf.cells[j])}

Min(S) == CHOOSE x \in S : \A y \in S : x <= y

\* the cell that find returns: the first pure one in array order
NextPure(ibf) == ibf.cells[Min(PureCells(ibf))]

AllEmpty(ibf) == \A j \in DOMAIN ibf.cells : is_empty(ibf.cells[j])

NotEmpty(ibf) == {j \in DOMAIN ibf.cells : ~is_empty(ibf.cells[j])}

NoResult == [tag |-> "None", set |-> {}, not_empty |-> {}]
DecodeOk(set) == [tag |-> "Ok", set |-> set, not_empty |-> {}]
\* Err(format!("Unable to fully decode: {:#?}", not_empty))
DecodeErr(ibf) == [tag |-> "Err", set |-> {}, not_empty |-> NotEmpty(ibf)]

\* what decode returns once no cell is pure
DecodeReturn(ibf, set) ==
    IF AllEmpty(ibf) THEN DecodeOk(set) ELSE DecodeErr(ibf)

\* iterations after which a decode call is cut off in the model
MaxPeel == 6

Diverged == [tag |-> "Diverged", set |-> {}, not_empty |-> {}]

\* IBF::decode, the loop with `set` accumulated so far
RECURSIVE DecodeLoop(_, _, _)
DecodeLoop(ibf, set, fuel) ==
    IF PureCells(ibf) # {}
    THEN LET next_pure == NextPure(ibf)
             element == CellDecode(next_pure)
         IN IF fuel = 0 \/ ~element.ok THEN Diverged
            ELSE DecodeLoop(IbfRemove(ibf, next_pure),
                            set \cup {element.side}, fuel - 1)
    ELSE DecodeReturn(ibf, set)

\* IBF::decode as one call
IbfDecode(ibf) == DecodeLoop(ibf, {}, MaxPeel)

---------------------------------------------------------------------------
(* The reconciliation of two peers: construction, encode, subtraction and  *)
(* the peeling loop of decode, one iteration per step.                     *)

Shape(size, hash_count) == [size |-> size, hash_count |-> hash_count]

\* the (size, hash_count) the IBFs are constructed with
Shapes ==
    {Shape(0, 3), Shape(1, 1), Shape(1, 2), Shape(1, 3),
     Shape(2, 1), Shape(2, 2), Shape(2, 3), Shape(3, 1)}

\* pairs of peers that do not share their parameters
Mismatched ==
    {<<Shape(1, 1), Shape(1, 2)>>, <<Shape(2, 1), Shape(1, 1)>>,
     <<Shape(1, 3), Shape(2, 2)>>}

ShapePairs == {<<s, s>> : s \in Shapes} \cup Mismatched

Max(a, b) == IF a >= b THEN a ELSE b

\* the index hashes of a behaviour: every function of (element, i) whose
\* values cover the residues of the bucket counts in use
IdxHashes(sl, sr) ==
    LET n == Max(Max(sl.size, sr.size), 1)
        k == Max(sl.hash_count, sr.hash_count)
    IN [Elems -> {p \in [Pos -> 0..(n - 1)] : \A i \in Pos : i >= k => p[i] = 0}]

Build(sh) ==
    IF sh.hash_count = DefaultHashCount
    THEN new(sh.size)
    ELSE new_with_hash_count(sh.size, sh.hash_count)

NoIbf == new_with_hash_count(0, 0)

InitIbf ==
    /\ \E sp \in ShapePairs :
          /\ left = Build(sp[1])
          /\ right = Build(sp[2])
          /\ hidx \in IdxHashes(sp[1], sp[2])
    /\ encL = [e \in Elems |-> 0]
    /\ encR = [e \in Elems |-> 0]
    /\ pc = "build"
    /\ origin = "none"
    /\ dec = NoIbf
    /\ dset = {}
    /\ res = NoResult
    /\ steps = 0

RECURSIVE SumOver(_, _)
SumOver(f, S) ==
    IF S = {} THEN 0
    ELSE LET x == CHOOSE y \in S : TRUE IN f[x] + SumOver(f, S \ {x})

Encoded == SumOver(encL, Elems) + SumOver(encR, Elems)

\* left.encode(e)
EncodeLeft(e) ==
    /\ pc = "build"
    /\ Encoded < MaxEnc
    /\ encL[e] < MaxDup
    /\ IF IndexPanics(left)
       THEN pc' = "panic" /\ UNCHANGED <<left, encL>>
       ELSE /\ left' = IbfEncode(left, e)
            /\ encL' = [encL EXCEPT ![e] = @ + 1]
            /\ pc' = pc
    /\ UNCHANGED <<hidx, right, encR, origin, dec, dset, res, steps>>
    /\ UNCHANGED strataVars

\* right.encode(e)
EncodeRight(e) ==
    /\ pc = "build"
    /\ Encoded < MaxEnc
    /\ encR[e] < MaxDup
    /\ IF IndexPanics(right)
       THEN pc' = "panic" /\ UNCHANGED <<right, encR>>
       ELSE /\ right' = IbfEncode(right, e)
            /\ encR' = [encR EXCEPT ![e] = @ + 1]
            /\ pc' = pc
    /\ UNCHANGED <<hidx, left, encL, origin, dec, dset, res, steps>>
    /\ UNCHANGED strataVars

\* (left - right), then decode() is entered on the difference
Subtract(d) ==
    /\ pc = "build"
    /\ IF d.ok
       THEN pc' = "peel" /\ dec' = d.ibf /\ origin' = "diff"
       ELSE pc' = "sub_err" /\ UNCHANGED <<dec, origin>>
    /\ UNCHANGED <<hidx, left, right, encL, encR, dset, res, steps>>
    /\ UNCHANGED strataVars

SubOwned == Subtract(IbfSub(left, right))

SubBorrowed == Subtract(IbfSubRef(left, right))

\* left.decode() is entered
DecodeLeft ==
    /\ pc = "build"
    /\ pc' = "peel" /\ dec' = left /\ origin' = "left"
    /\ UNCHANGED <<hidx, left, right, encL, encR, dset, res, steps>>
    /\ UNCHANGED strataVars

\* one iteration of decode's loop
DecodeStep ==
    /\ pc = "peel"
    /\ IF PureCells(dec) # {}
       THEN LET next_pure == NextPure(dec)
                element == CellDecode(next_pure)
            IN /\ steps < MaxPeel
               /\ IF element.ok
                  THEN /\ dset' = dset \cup {element.side}
                       /\ dec' = IbfRemove(dec, next_pure)
                       /\ steps' = steps + 1
                       /\ pc' = pc
                  ELSE pc' = "panic" /\ UNCHANGED <<dset, dec, steps>>
               /\ res' = res
       ELSE /\ res' = DecodeReturn(dec, dset)
            /\ pc' = "done"
            /\ UNCHANGED <<dset, dec, steps>>
    /\ UNCHANGED <<hidx, left, right, encL, encR, origin>>
    /\ UNCHANGED strataVars

NextIbf ==
    \/ \E e \in Elems : EncodeLeft(e)
    \/ \E e \in Elems : EncodeRight(e)
    \/ SubOwned
    \/ SubBorrowed
    \/ DecodeLeft
    \/ DecodeStep

---------------------------------------------------------------------------
(* StrataEstimator *)

\* IBF::new(80) of new_with_size
StrataIbfSize == 80

\* StrataEstimator::new_with_size: the ibfs, indexed from 0
new_with_size(size) == [s \in 0..(size - 1) |-> new(StrataIbfSize)]

IbfsLen(ibfs) == Cardinality(DOMAIN ibfs)

\* hash64(element.to_be_bytes()).trailing_zeros()
TrailingZeros(element) == htz[element]

StrataPanics(ibfs) == IbfsLen(ibfs) = 0

\* the stratum of StrataEstimator::encode: trailing as usize % len
Stratum(ibfs, element) == TrailingZeros(element) % IbfsLen(ibfs)

\* StrataEstimator::encode; the caller has tested StrataPanics
StrataEncode(ibfs, element) ==
    [ibfs EXCEPT ![Stratum(ibfs, element)] = IbfEncode(@, element)]

EstOk(n) == [ok |-> TRUE, val |-> n]
EstErr == [ok |-> FALSE, val |-> 0]

\* the extrapolation by 2^(i+1)
RECURSIVE EstimateFromShort(_, _, _, _)
EstimateFromShort(l, r, i, count) ==
    IF i < 0 THEN EstOk(count)
    ELSE LET d == IbfSubRef(l[i], r[i])
         IN IF ~d.ok THEN EstErr
            ELSE LET set == IbfDecode(d.ibf)
                 IN IF set.tag = "Ok"
                    THEN EstimateFromShort(l, r, i - 1,
                                           count + Cardinality(set.set))
                    ELSE EstOk(count * 2 ^ (i + 1))

\* the loop of estimate_differences over enumerate().rev(), from index i down
RECURSIVE EstimateFrom(_, _, _, _)
EstimateFrom(l, r, i, count) ==
    IF i < 0 THEN EstOk(count)
    ELSE LET d == IbfSubRef(l[i], r[i])
         IN IF ~d.ok THEN EstErr
            ELSE LET set == IbfDecode(d.ibf)
                 IN IF set.tag = "Ok"
                    THEN EstimateFrom(l, r, i - 1, count + Cardinality(set.set))
                    ELSE EstOk(count * 2 ^ (i + 2))

\* the loop over enumerate() without rev(), from index i up
RECURSIVE EstimateUpFrom(_, _, _, _)
EstimateUpFrom(l, r, i, count) ==
    IF i >= IbfsLen(l) THEN EstOk(count)
    ELSE LET d == IbfSubRef(l[i], r[i])
         IN IF ~d.ok THEN EstErr
            ELSE LET set == IbfDecode(d.ibf)
                 IN IF set.tag = "Ok"
                    THEN EstimateUpFrom(l, r, i + 1,
                                        count + Cardinality(set.set))
                    ELSE EstOk(count * 2 ^ (i + 2))

\* the strata visited from the lowest index up
estimate_differences_forward(l, r) ==
    IF IbfsLen(l) # IbfsLen(r) THEN EstErr
    ELSE EstimateUpFrom(l, r, 0, 0)

\* StrataEstimator::estimate_differences
estimate_differences(l, r) ==
    IF IbfsLen(l) # IbfsLen(r) THEN EstErr
    ELSE EstimateFrom(l, r, IbfsLen(l) - 1, 0)

\* the numbers of strata the estimators are constructed with
StrataPairs == {<<0, 0>>, <<1, 1>>, <<2, 2>>, <<1, 2>>, <<2, 0>>}

\* the index hashes of the strata behaviours: per element, its three
\* positions all on one cell, two on one cell, or on three cells
StrataPatterns == {<<0, 0, 0>>, <<0, 1, 1>>, <<0, 1, 2>>}

StrataIdxHashes ==
    [Elems -> {[i \in Pos |-> p[i + 1]] : p \in StrataPatterns}]

InitStrata ==
    /\ \E sp \in StrataPairs :
          /\ se1 = new_with_size(sp[1])
          /\ se2 = new_with_size(sp[2])
          /\ htz \in [Elems -> 0..Max(sp[1], sp[2])]
    /\ hidx \in StrataIdxHashes
    /\ sencL = {}
    /\ sencR = {}
    /\ spc = "build"
    /\ est = EstErr

\* se1.encode(e)
StrataEncodeLeft(e) ==
    /\ spc = "build"
    /\ Cardinality(sencL) + Cardinality(sencR) < MaxStrataEnc
    /\ e \notin sencL
    /\ IF StrataPanics(se1)
       THEN spc' = "panic" /\ UNCHANGED <<se1, sencL>>
       ELSE /\ se1' = StrataEncode(se1, e)
            /\ sencL' = sencL \cup {e}
            /\ spc' = spc
    /\ UNCHANGED <<hidx, htz, se2, sencR, est>>
    /\ UNCHANGED ibfVars

\* se2.encode(e)
StrataEncodeRight(e) ==
    /\ spc = "build"
    /\ Cardinality(sencL) + Cardinality(sencR) < MaxStrataEnc
    /\ e \notin sencR
    /\ IF StrataPanics(se2)
       THEN spc' = "panic" /\ UNCHANGED <<se2, sencR>>
       ELSE /\ se2' = StrataEncode(se2, e)
            /\ sencR' = sencR \cup {e}
            /\ spc' = spc
    /\ UNCHANGED <<hidx, htz, se1, sencL, est>>
    /\ UNCHANGED ibfVars

\* se1.estimate_differences(&se2)
Estimate ==
    /\ spc = "build"
    /\ est' = estimate_differences(se1, se2)
    /\ spc' = "done"
    /\ UNCHANGED <<hidx, htz, se1, se2, sencL, sencR>>
    /\ UNCHANGED ibfVars

NextStrata ==
    \/ \E e \in Elems : StrataEncodeLeft(e)
    \/ \E e \in Elems : StrataEncodeRight(e)
    \/ Estimate

InitStrataIdle ==
    /\ htz = [e \in Elems |-> 0]
    /\ se1 = new_with_size(0)
    /\ se2 = new_with_size(0)
    /\ sencL = {}
    /\ sencR = {}
    /\ spc = "idle"
    /\ est = EstErr

InitIbfIdle ==
    /\ left = NoIbf
    /\ right = NoIbf
    /\ encL = [e \in Elems |-> 0]
    /\ encR = [e \in Elems |-> 0]
    /\ pc = "idle"
    /\ origin = "none"
    /\ dec = NoIbf
    /\ dset = {}
    /\ res = NoResult
    /\ steps = 0

---------------------------------------------------------------------------
(* Specifications *)

\* two peers reconcile with IBFs
Init == InitIbf /\ InitStrataIdle

Next == NextIbf

Spec == Init /\ [][Next]_vars

\* two peers compare strata estimators
InitS == InitStrata /\ InitIbfIdle

SpecStrata == InitS /\ [][NextStrata]_vars

\* either of the two
InitAll == (InitIbf /\ InitStrataIdle) \/ (InitStrata /\ InitIbfIdle)

NextAll == NextIbf \/ NextStrata

SpecAll == InitAll /\ [][NextAll]_vars

---------------------------------------------------------------------------
(* The sets the peers hold *)

S_A == {e \in Elems : encL[e] > 0}
S_B == {e \in Elems : encR[e] > 0}

DuplicateFree == \A e \in Elems : encL[e] <= 1 /\ encR[e] <= 1

\* {Left(e) : e in S_A \ S_B} union {Right(e) : e in S_B \ S_A}
Difference(A, B) == {Left(e) : e \in A \ B} \cup {Right(e) : e \in B \ A}

DecodedDiff == pc = "done" /\ origin = "diff"

SameShape(l, r) == l.size = r.size /\ l.hash_count = r.hash_count

\* count == 0, id_sum == 0 and hash_sum == 0 in every cell
EveryCellZero(ibf) ==
    \A j \in DOMAIN ibf.cells :
        /\ ibf.cells[j].count = 0
        /\ ibf.cells[j].id_sum = 0
        /\ ibf.cells[j].hash_sum = 0

---------------------------------------------------------------------------
(* C1 *)

\* C1: for duplicate-free sets S_A and S_B encoded into two IBFs of one
\* shape, whenever decode of the difference returns Ok, the returned set is
\* exactly {Left(e) : e in S_A \ S_B} union {Right(e) : e in S_B \ S_A}.
C1_OkIsExactDifference ==
    (DecodedDiff /\ DuplicateFree /\ res.tag = "Ok")
        => res.set = Difference(S_A, S_B)

---------------------------------------------------------------------------
(* C2 *)

\* C2: a freshly constructed IBF after a single encode(e) decodes to
\* Ok({Left(e)}), for every e, bucket count and hash count, also when
\* positions of e fall on the same cell.
C2_SingleElementRoundTrip ==
    (pc = "done" /\ origin = "left" /\ Encoded = 1 /\ Cardinality(S_A) = 1)
        => (res.tag = "Ok" /\ res.set = {Left(e) : e \in S_A})

---------------------------------------------------------------------------
(* C3 *)

\* C3: two IBFs of the same shape that encode the same set subtract to an
\* IBF in which every cell is empty, and decode of that difference returns
\* Ok(empty set), whatever the bucket count, the hash count and the order
\* of the encode calls.
C3_IdentityDecodesEmpty ==
    /\ (pc = "build" /\ encL = encR /\ SameShape(left, right))
          => /\ IbfSub(left, right).ok
             /\ EveryCellZero(IbfSub(left, right).ibf)
             /\ IbfSubRef(left, right).ok
             /\ EveryCellZero(IbfSubRef(left, right).ibf)
    /\ (origin = "diff" /\ encL = encR)
          => /\ EveryCellZero(dec)
             /\ steps = 0
             /\ pc = "done" => (res.tag = "Ok" /\ res.set = {})

C3_Witness ==
    /\ DecodedDiff /\ encL = encR
    /\ Cardinality(S_A) >= 2 /\ left.size >= 2 /\ left.hash_count >= 2
    /\ res.tag = "Ok"

---------------------------------------------------------------------------
(* C4 *)

\* C4: subtracting two IBFs (owned or borrowed) whose size or hash_count
\* differ returns Err and no IBF; estimate_differences on estimators with
\* different numbers of strata returns Err; IBFs of the same shape subtract
\* to Ok with an IBF of that shape.
C4_ShapeMismatchIsErr ==
    /\ pc = "sub_err" => (~SameShape(left, right) /\ origin = "none" /\ dec = NoIbf)
    /\ origin = "diff"
          => /\ SameShape(left, right)
             /\ SameShape(dec, left)
             /\ DOMAIN dec.cells = 0..(left.size - 1)
    /\ (pc = "build" /\ ~SameShape(left, right))
          => (~IbfSub(left, right).ok /\ ~IbfSubRef(left, right).ok)
    /\ (spc = "done" /\ IbfsLen(se1) # IbfsLen(se2)) => ~est.ok

C4_Witness ==
    pc = "sub_err" /\ left.size = right.size /\ Encoded > 0

---------------------------------------------------------------------------
(* C5 *)

\* C5: decode returns Ok(set) only if no cell is pure and every cell is
\* empty; if a non-empty cell remains it returns Err, carrying the
\* surviving cells and none of the elements peeled so far.
C5_DecodeAllOrNothing ==
    pc = "done"
        => /\ PureCells(dec) = {}
           /\ res.tag \in {"Ok", "Err"}
           /\ res.tag = "Ok" <=> EveryCellZero(dec)
           /\ res.tag = "Ok" => res.set = dset
           /\ res.tag = "Err"
                 => /\ res.set = {}
                    /\ res.not_empty = {j \in DOMAIN dec.cells :
                                           dec.cells[j] # CellDefault}

C5_Witness ==
    pc = "done" /\ res.tag = "Err" /\ dset # {} /\ steps >= 1

---------------------------------------------------------------------------
(* C6 *)

\* C6: two StrataEstimators with the same number of strata that have
\* encoded the same set of elements, in any order, estimate Ok(0).
C6_SameSetEstimatesZero ==
    (spc = "done" /\ sencL = sencR /\ IbfsLen(se1) = IbfsLen(se2))
        => (est.ok /\ est.val = 0)

C6_Witness ==
    /\ spc = "done" /\ sencL = sencR /\ Cardinality(sencL) = 2
    /\ IbfsLen(se1) = 2 /\ IbfsLen(se2) = 2
    /\ \E a, b \in sencL : htz[a] % 2 # htz[b] % 2

---------------------------------------------------------------------------
(* C7 *)

Fresh(ibf) == new_with_hash_count(ibf.size, ibf.hash_count)

RECURSIVE EncodeTimes(_, _, _)
EncodeTimes(ibf, e, n) ==
    IF n = 0 THEN ibf ELSE EncodeTimes(IbfEncode(ibf, e), e, n - 1)

\* the encode calls counted by enc, made in ascending order of the elements
RECURSIVE EncodeAscending(_, _, _)
EncodeAscending(ibf, enc, S) ==
    IF S = {} THEN ibf
    ELSE LET e == Min(S)
         IN EncodeAscending(EncodeTimes(ibf, e, enc[e]), enc, S \ {e})

\* C7: every order of a sequence of encode calls on a fresh IBF produces
\* the same cells (id_sum, hash_sum, count in every bucket) and hence the
\* same decode outcome.
C7_EncodeOrderIndependent ==
    /\ left = EncodeAscending(Fresh(left), encL, Elems)
    /\ right = EncodeAscending(Fresh(right), encR, Elems)
    /\ (pc = "done" /\ origin = "left")
          => res = IbfDecode(EncodeAscending(Fresh(left), encL, Elems))

C7_Witness ==
    /\ pc = "done" /\ origin = "left"
    /\ Cardinality(S_A) >= 3 /\ left.size >= 2 /\ left.hash_count >= 2
    /\ steps >= 1

---------------------------------------------------------------------------
(* C8 *)

\* C8: no operation aborts with a panic; every failure is a returned Err.
C8_NothingPanics == pc # "panic" /\ spc # "panic"

---------------------------------------------------------------------------
(* C9 *)

\* C9: when S_A and S_B are disjoint and hold more differing elements than
\* the IBF has cells, decode of the difference returns Err, never Ok.
C9_UndersizedIsErr ==
    (DecodedDiff /\ DuplicateFree /\ S_A \cap S_B = {}
        /\ Cardinality(S_A \cup S_B) > left.size)
        => res.tag = "Err"

---------------------------------------------------------------------------
(* C10 *)

\* the elements one estimator holds and the other does not
StrataDelta == (sencL \ sencR) \cup (sencR \ sencL)

StrataRange == 0..(IbfsLen(se1) - 1)

\* what decode returns for the difference of stratum s
StratumDecode(s) == IbfDecode(IbfSubRef(se1[s], se2[s]).ibf)

FailingStrata == {s \in StrataRange : StratumDecode(s).tag # "Ok"}

MaxOf(S) == CHOOSE x \in S : \A y \in S : x >= y

\* the cardinalities of the decoded differences of the strata in S, summed
RECURSIVE DecodedAbove(_)
DecodedAbove(S) ==
    IF S = {} THEN 0
    ELSE LET s == CHOOSE t \in S : TRUE
         IN Cardinality(StratumDecode(s).set) + DecodedAbove(S \ {s})

\* C10: estimate_differences visits the strata from the highest index down,
\* adds the cardinality of every decoded difference, and at the first
\* stratum s that fails to decode returns count * 2^(s+2); if every stratum
\* decodes it returns the number of differing elements.
C10_EstimateIsReference ==
    (spc = "done" /\ IbfsLen(se1) = IbfsLen(se2))
        => /\ est.ok
           /\ IF FailingStrata = {}
              THEN est.val = Cardinality(StrataDelta)
              ELSE LET s == MaxOf(FailingStrata)
                   IN est.val =
                        DecodedAbove({t \in StrataRange : t > s}) * 2 ^ (s + 2)

C10_Witness ==
    /\ spc = "done" /\ IbfsLen(se1) = 2 /\ IbfsLen(se2) = 2
    /\ FailingStrata = {0}
    /\ est.ok /\ est.val = 8

---------------------------------------------------------------------------
(* The peeling loop *)

\* C11: decode of the difference of two duplicate-free sets performs at most
\* |S_A symmetric-difference S_B| peeling iterations, and the loop is never
\* cut short before it returns: while a pure cell remains, fewer than that
\* many iterations have been made.  On every input the iterations are fewer
\* than the distinct elements encoded, and decode returns Ok or Err.
C11_PeelingBounded ==
    /\ (pc = "peel" /\ PureCells(dec) # {})
           => steps < Cardinality(S_A \cup S_B)
    /\ pc = "done" => res.tag \in {"Ok", "Err"}
    /\ (origin = "diff" /\ DuplicateFree)
           => /\ steps <= Cardinality(Difference(S_A, S_B))
              /\ (pc = "peel" /\ PureCells(dec) # {})
                     => steps < Cardinality(Difference(S_A, S_B))

C11_Witness ==
    /\ DecodedDiff /\ DuplicateFree
    /\ Cardinality(Difference(S_A, S_B)) = 3
    /\ steps = 3
    /\ S_A # {} /\ S_B # {}

Abs(n) == IF n < 0 THEN -n ELSE n

\* the counts of the cells 0..(n-1), summed
RECURSIVE SumCountBelow(_, _)
SumCountBelow(ibf, n) ==
    IF n = 0 THEN 0
    ELSE ibf.cells[n - 1].count + SumCountBelow(ibf, n - 1)

SumCount(ibf) == SumCountBelow(ibf, ibf.size)

\* the absolute values of the counts of the cells 0..(n-1), summed
RECURSIVE SumAbsBelow(_, _)
SumAbsBelow(ibf, n) ==
    IF n = 0 THEN 0
    ELSE Abs(ibf.cells[n - 1].count) + SumAbsBelow(ibf, n - 1)

SumAbs(ibf) == SumAbsBelow(ibf, ibf.size)

\* a step of the loop that peels one pure cell
Peels == pc = "peel" /\ pc' = "peel" /\ steps' = steps + 1

\* C12 as stated: every peeling step reduces the sum of |count| over all
\* cells by 2k.
C12_PeelReducesBy2k ==
    [][Peels => SumAbs(dec') = SumAbs(dec) - 2 * dec.hash_count]_vars

\* C12, amended: every peeling step moves the signed sum of count over all
\* cells by exactly k, down when the peeled cell has count +1 and up when it
\* has count -1; the sum of |count| changes by at most k, and falls by
\* exactly k when the IBF decoded holds one side only.
C12_PeelMovesCountByK ==
    [][Peels =>
         /\ SumCount(dec') =
                SumCount(dec) - dec.hash_count * NextPure(dec).count
         /\ Abs(SumAbs(dec') - SumAbs(dec)) <= dec.hash_count
         /\ origin = "left" => SumAbs(dec') = SumAbs(dec) - dec.hash_count
      ]_vars

C12_Witness ==
    /\ origin = "diff" /\ dec.hash_count = 3 /\ dec.size = 2
    /\ steps = 2
    /\ \E a, b \in Elems : Left(a) \in dset /\ Right(b) \in dset

\* what decode returns under every order in which pure cells can be taken:
\* the loop of IBF::decode with `find` replaced by any pure cell
RECURSIVE PeelOutcomes(_, _, _)
PeelOutcomes(ibf, set, fuel) ==
    IF PureCells(ibf) = {} THEN {DecodeReturn(ibf, set)}
    ELSE IF fuel = 0 THEN {Diverged}
    ELSE UNION {LET c == ibf.cells[j]
                IN PeelOutcomes(IbfRemove(ibf, c),
                                set \cup {CellDecode(c).side}, fuel - 1) :
                j \in PureCells(ibf)}

\* Ok with its set, or Err: what the caller of decode can tell apart
Outcome(r) == [tag |-> r.tag, set |-> r.set]

\* C13: whichever pure cell is peeled next, decode returns what it returns
\* when the first pure cell is taken, as the code does: the same Ok set, or
\* Err in both cases.
C13_PeelingConfluent ==
    pc = "peel"
        => {Outcome(r) : r \in PeelOutcomes(dec, dset, MaxPeel - steps)}
               = {Outcome(DecodeLoop(dec, dset, MaxPeel - steps))}

---------------------------------------------------------------------------
(* Saturation of the highest stratum *)

\* C14: when the highest stratum L-1 is the first one that fails to decode,
\* estimate_differences returns Ok(0), whatever the lower strata hold; the
\* value is a lower bound on the number of differing elements.
C14_SaturationReturnsZero ==
    (/\ spc = "done"
     /\ IbfsLen(se1) = IbfsLen(se2)
     /\ IbfsLen(se1) > 0
     /\ (IbfsLen(se1) - 1) \in FailingStrata)
        => /\ est = EstOk(0)
           /\ est.val <= Cardinality(StrataDelta)

C14_Witness ==
    /\ spc = "done" /\ IbfsLen(se1) = 2 /\ IbfsLen(se2) = 2
    /\ FailingStrata = {1}
    /\ StratumDecode(0).set # {}
    /\ Cardinality(StrataDelta) >= 2
    /\ est = EstOk(0)

---------------------------------------------------------------------------
(* Cell *)

CellsOf(ibf) == {ibf.cells[j] : j \in DOMAIN ibf.cells}

\* the cells the peers hold, the cells of the IBF being decoded, and the
\* sums and differences of a cell of one peer and a cell of the other
ReachableCells ==
    CellsOf(left) \cup CellsOf(right) \cup CellsOf(dec)
        \cup UNION {{CellSub(a, b), CellSub(b, a), CellSubOwned(a, b),
                     CellSubOwned(b, a), CellAdd(a, b)} :
                    <<a, b>> \in CellsOf(left) \X CellsOf(right)}

ImpureCell == [ok |-> FALSE, side |-> <<"Impure bucket", 0>>]

\* C15 as stated: decode is Left(id_sum) when count is +1, Right(id_sum)
\* when count is -1, and the impure-cell error otherwise, on every reachable
\* cell.
C15_DecodeByCountAlone ==
    \A c \in ReachableCells :
        CellDecode(c) =
            IF c.count = 1 THEN [ok |-> TRUE, side |-> Left(c.id_sum)]
            ELSE IF c.count = -1 THEN [ok |-> TRUE, side |-> Right(c.id_sum)]
            ELSE ImpureCell

\* C15, amended: decode is Left(id_sum) when count is +1 and hash_sum is the
\* hash of id_sum, Right(id_sum) when count is -1 and hash_sum is the hash
\* of id_sum, and the impure-cell error otherwise, on every reachable cell.
C15_DecodeByCountAndHash ==
    \A c \in ReachableCells :
        CellDecode(c) =
            IF c.count = 1 /\ c.hash_sum = ElmHash(c.id_sum)
            THEN [ok |-> TRUE, side |-> Left(c.id_sum)]
            ELSE IF c.count = -1 /\ c.hash_sum = ElmHash(c.id_sum)
            THEN [ok |-> TRUE, side |-> Right(c.id_sum)]
            ELSE ImpureCell

\* tests::impure_disjoint: two elements on one side and a third on the
\* other in one cell, next to cells that decode Left and Right
C15_Witness ==
    /\ \E c \in ReachableCells :
          c.count = 1 /\ c.hash_sum # ElmHash(c.id_sum) /\ ~CellDecode(c).ok
    /\ \E c \in ReachableCells, e \in Elems :
          c.count = 1 /\ CellDecode(c).ok /\ CellDecode(c).side = Left(e)
    /\ \E c \in ReachableCells, e \in Elems :
          c.count = -1 /\ CellDecode(c).ok /\ CellDecode(c).side = Right(e)
    /\ \E c \in ReachableCells : c.count = 2

\* a - b and b - a under one of the Sub impls
Antisymmetric(d1, d2) ==
    /\ d1.id_sum = d2.id_sum
    /\ d1.hash_sum = d2.hash_sum
    /\ d1.count = -d2.count
    /\ LET r1 == CellDecode(d1)
           r2 == CellDecode(d2)
       IN /\ (r1.ok /\ r1.side[1] = "Left") <=> (r2.ok /\ r2.side[1] = "Right")
          /\ (r1.ok /\ r2.ok) => r1.side[2] = r2.side[2]

\* the cells of tests::subtract: x encoded twice, y encoded once
EncodedTwice(x) == CellEncode(CellEncode(CellDefault, x), x)
EncodedOnce(y) == CellEncode(CellDefault, y)

\* tests::subtract, over every pair of elements
EvenContributionsCancel ==
    \A x, y \in Elems :
        /\ EncodedTwice(x).id_sum = 0 /\ EncodedTwice(x).hash_sum = 0
        /\ CellDecode(CellSub(EncodedTwice(x), EncodedOnce(y)))
               = [ok |-> TRUE, side |-> Left(y)]
        /\ CellDecode(CellSub(EncodedOnce(y), EncodedTwice(x)))
               = [ok |-> TRUE, side |-> Right(y)]

\* C16: for a cell a of the left peer or of the IBF being decoded and a cell
\* b of the right peer, a - b and b - a have the same id_sum and
\* hash_sum and opposite counts, and a - b decodes to Left(x) exactly when
\* b - a decodes to Right(x); an element encoded twice into one operand
\* cancels out of the sums, so that cell minus a cell holding y decodes to
\* Left(y), and the reverse to Right(y).
C16_SubAntisymmetric ==
    /\ \A a \in CellsOf(left) \cup CellsOf(dec), b \in CellsOf(right) :
          /\ Antisymmetric(CellSub(a, b), CellSub(b, a))
          /\ Antisymmetric(CellSubOwned(a, b), CellSubOwned(b, a))
    /\ EvenContributionsCancel

C16_Witness ==
    \E a \in CellsOf(left), b \in CellsOf(right), x \in Elems :
        /\ a.count >= 2 /\ b.count >= 1
        /\ CellDecode(CellSub(a, b)) = [ok |-> TRUE, side |-> Left(x)]
        /\ CellDecode(CellSub(b, a)) = [ok |-> TRUE, side |-> Right(x)]
        /\ CellDecode(CellSubOwned(b, a)) = [ok |-> TRUE, side |-> Right(x)]

---------------------------------------------------------------------------
(* The content of the cells after encodes *)

\* the positions i < k of element e that fall on bucket j
PositionsOn(ibf, e, j) ==
    {i \in 0..(ibf.hash_count - 1) : hidx[e][i] % ibf.size = j}

\* the pairs (encoded element e, position i) on bucket j, e counted as often
\* as it was encoded
PairsOn(ibf, enc, e, j) == enc[e] * Cardinality(PositionsOn(ibf, e, j))

RECURSIVE PairsOnBucket(_, _, _, _)
PairsOnBucket(ibf, enc, S, j) ==
    IF S = {} THEN 0
    ELSE LET e == CHOOSE x \in S : TRUE
         IN PairsOn(ibf, enc, e, j) + PairsOnBucket(ibf, enc, S \ {e}, j)

RECURSIVE XorAll(_)
XorAll(S) ==
    IF S = {} THEN 0
    ELSE LET x == CHOOSE y \in S : TRUE IN Xor(x, XorAll(S \ {x}))

\* the elements that the XOR over the pairs on bucket j does not cancel
OddOn(ibf, enc, j) == {e \in Elems : PairsOn(ibf, enc, e, j) % 2 = 1}

CellContent(ibf, enc) ==
    /\ DOMAIN ibf.cells = 0..(ibf.size - 1)
    /\ \A j \in DOMAIN ibf.cells :
          /\ ibf.cells[j].count = PairsOnBucket(ibf, enc, Elems, j)
          /\ ibf.cells[j].id_sum = XorAll(OddOn(ibf, enc, j))
          /\ ibf.cells[j].hash_sum =
                 XorAll({ElmHash(e) : e \in OddOn(ibf, enc, j)})
    /\ SumCount(ibf) = ibf.hash_count * SumOver(enc, Elems)

\* m and k stay as constructed; after encode(e) the cells hold the content
\* above and every cell outside the positions of e is as it was
EncodeFrame(ibf, ibfN, enc, encN) ==
    /\ ibfN.size = ibf.size
    /\ ibfN.hash_count = ibf.hash_count
    /\ DOMAIN ibfN.cells = DOMAIN ibf.cells
    /\ (ibfN # ibf \/ encN # enc) => CellContent(ibfN, encN)
    /\ \A e \in Elems :
          encN = [enc EXCEPT ![e] = @ + 1]
              => \A j \in DOMAIN ibf.cells :
                     PositionsOn(ibf, e, j) = {}
                         => ibfN.cells[j] = ibf.cells[j]

\* the fresh IBFs hold the content of no encode
FreshContent ==
    Encoded = 0 => CellContent(left, encL) /\ CellContent(right, encR)

\* C17: after any sequence of encodes on a fresh IBF(m, k), m, k and the
\* number of cells are as constructed; the count of bucket j is the number
\* of pairs (encoded element e, position i < k) with idx(e, i) = j, its
\* id_sum the XOR of those elements and its hash_sum the XOR of their
\* hashes; the counts sum to k times the number of encode calls; encode(e)
\* changes no cell outside the positions of e.
C17_CellContent ==
    [][/\ FreshContent
       /\ EncodeFrame(left, left', encL, encL')
       /\ EncodeFrame(right, right', encR, encR')
      ]_vars

C17_Witness ==
    /\ pc = "build"
    /\ left.size = 2 /\ left.hash_count = 3
    /\ SumOver(encL, Elems) = 3
    /\ SumCount(left) = 9
    /\ \E j \in DOMAIN left.cells :
          left.cells[j].count = 4 /\ Cardinality(OddOn(left, encL, j)) = 2
    /\ SumOver(encR, Elems) = 1

---------------------------------------------------------------------------
(* The expect calls of decode and remove *)

\* C18: every cell of the peers and of the IBF being decoded that is pure
\* (count +1 or -1 and hash_sum the hash of id_sum) decodes to Ok; the cell
\* that decode's loop takes next decodes to Ok, so neither expect fails: a
\* panic is never raised once decode has been entered.
C18_PureCellsDecode ==
    /\ \A c \in CellsOf(left) \cup CellsOf(right) \cup CellsOf(dec) :
          ((c.count = 1 \/ c.count = -1) /\ c.hash_sum = ElmHash(c.id_sum))
              => CellDecode(c).ok
    /\ (pc = "peel" /\ PureCells(dec) # {}) => CellDecode(NextPure(dec)).ok
    /\ pc = "panic" => origin = "none"

C18_Witness ==
    /\ DecodedDiff /\ res.tag = "Ok" /\ steps = 3
    /\ \E a, b \in Elems : Left(a) \in res.set /\ Right(b) \in res.set

====
